---------------------------- MODULE Spec2Model ----------------------------
(***************************************************************************)
(* Model of xtools_install.py: the package/stage lifecycle (download,      *)
(* extract, prerequisites, build, install) of the binutils, gcc, gdb and   *)
(* newlib packages, and the driver loop of main().                         *)
(*                                                                         *)
(* The filesystem is abstracted to what the script itself tests: whether   *)
(* an archive, a source directory, a build directory and a Makefile exist. *)
(* External tools (wget, configure, make, the gcc prerequisite script) are *)
(* nondeterministic: each invocation takes its outcome as an input.        *)
(***************************************************************************)
EXTENDS Naturals, Integers, Sequences, FiniteSets, TLC

VARIABLES
    prefix,     \* state of CONFIG['install_dir']: "missing", "readonly", "writable"
    tar,        \* tar[p]: archive file of p: "none", "bad" (unreadable), "good"
    src,        \* src[p]: source directory src/<name>-<version> exists
    bdir,       \* bdir[p]: build directory build/<name>-<version> exists
    mk,         \* mk[p]: a Makefile exists in the build directory of p
    dirs,       \* which of the base directories archives, src, build exist
    cwd,        \* working directory of the process
    log,        \* calls, external commands and reports of this run, in order
    nonzero,    \* kinds of sub-process that exited non-zero in this run
    err,        \* exception raised and not handled ("none" if none)
    ret,        \* value returned by the last download()
    net,        \* net[k]: what wget would meet on mirror k during the last download()
                \* called directly on a package (not recorded under main())
    idx,        \* main(): index of the package being processed
    pc,         \* main(): next stage, or "done" / "aborted"
    run,        \* number of the current run of the script
    warm        \* the run started after a complete run with all caches present

vars == <<prefix, tar, src, bdir, mk, dirs, cwd, log, nonzero, err, ret, net,
          idx, pc, run, warm>>

(***************************************************************************)
(* Bounds                                                                  *)
(***************************************************************************)
MaxRuns == 2
MaxCalls == 2

(***************************************************************************)
(* Packages, mirrors, stages                                               *)
(***************************************************************************)
Pkgs == {"binutils", "gcc", "gdb", "newlib"}

packages == <<"binutils", "gcc", "gdb">>

newlibPkg == "newlib"

repos_url(p) == IF p = "newlib" THEN 1 ELSE 2

Stages == <<"download", "extract", "prerequisites", "build", "install">>

\* Variant: build is taken before prerequisites.
NextStage_BuildFirst(s) ==
    CASE s = "download"      -> "extract"
      [] s = "extract"       -> "build"
      [] s = "build"         -> "prerequisites"
      [] s = "prerequisites" -> "install"
      [] OTHER               -> "download"

NextStage(s) ==
    CASE s = "download"      -> "extract"
      [] s = "extract"       -> "prerequisites"
      [] s = "prerequisites" -> "build"
      [] s = "build"         -> "install"
      [] OTHER               -> "download"

ScriptDir == <<"script", "">>
get_src(p) == <<"src", p>>
get_build(p) == <<"build", p>>

InstallTargets == {"install", "install-gcc", "install-target-libgcc", "install-gdb"}

WgetOutcomes == {"ok", "fail_nofile", "fail_file"}

(***************************************************************************)
(* The world the methods act on, as a record, so that calls compose.       *)
(***************************************************************************)
World ==
    [tar |-> tar, src |-> src, bdir |-> bdir, mk |-> mk, dirs |-> dirs,
     cwd |-> cwd, log |-> log, nonzero |-> nonzero, err |-> err, ret |-> ret]

\* One log entry.  cmd: "call" (a method is entered; arg is the method, in is
\* the caller), "wget" (k is the mirror tried, rc the exit status the script
\* reads), "untar", "configure", "make" (arg is the target), "prereq", "print".
\* in: the method of pkg that issues the command.  cwd: the working directory
\* at that moment.
Entry(w, c, p, a, m, k, r) ==
    [cmd |-> c, pkg |-> p, arg |-> a, in |-> m, cwd |-> w.cwd, k |-> k, rc |-> r]

Emit(w, c, p, a, m) ==
    [w EXCEPT !.log = Append(@, Entry(w, c, p, a, m, 0, 0))]

Call(w, p, method, by) == Emit(w, "call", p, method, by)

Fail(w, kind, failed) ==
    IF failed THEN [w EXCEPT !.nonzero = @ \cup {kind}] ELSE w

Raise(w, e) == [w EXCEPT !.err = e]

\* No exception is pending: once one is raised, the statements that follow in
\* the method and in its callers are skipped.
Ok(w) == w.err = "none"

(***************************************************************************)
(* ToolPackage                                                             *)
(***************************************************************************)
\* What wget leaves at the archive path.
WgetFile(out) ==
    CASE out = "ok"        -> "good"
      [] out = "fail_file" -> "bad"
      [] OTHER             -> "none"

TP_download(w, p, k, out) ==
    IF w.src[p] THEN [w EXCEPT !.ret = TRUE]
    ELSE IF w.tar[p] # "none" THEN [w EXCEPT !.ret = TRUE]
    ELSE LET w1 == [w EXCEPT !.dirs = @ \cup {"archives"}]
             rc == IF out = "ok" THEN 0 ELSE 1
             w2 == [w1 EXCEPT !.log = Append(@, Entry(w1, "wget", p, "url", "download", k, rc))]
             w3 == Fail(w2, "wget", rc # 0)
         IN  [w3 EXCEPT !.tar[p] = WgetFile(out), !.ret = (rc = 0)]

\* The mirror loop of the download() of every concrete package.
RECURSIVE DownloadFrom(_, _, _, _)
DownloadFrom(w, p, k, outs) ==
    IF k > repos_url(p) THEN [w EXCEPT !.ret = FALSE]
    ELSE LET w1 == TP_download(w, p, k, outs[k])
         IN  IF w1.ret THEN w1 ELSE DownloadFrom(w1, p, k + 1, outs)

\* Variant: the loop misses the first mirror of the list.
download_SkipFirstMirror(w, p, by, outs) ==
    DownloadFrom(Call(w, p, "download", by), p, 2, outs)

download(w, p, by, outs) == DownloadFrom(Call(w, p, "download", by), p, 1, outs)

TP_prerequisites(w, p) == w

extract(w, p, by) ==
    LET w0 == Call(w, p, "extract", by)
    IN  IF w0.tar[p] = "none" THEN Raise(w0, "IOError")
        ELSE LET w1 == [w0 EXCEPT !.dirs = @ \cup {"src"}]
             IN  IF w1.src[p] THEN w1
                 ELSE LET w2 == Emit(w1, "untar", p, "archive", "extract")
                      IN  IF w2.tar[p] = "bad" THEN Raise(w2, "ReadError")
                          ELSE [w2 EXCEPT !.src[p] = TRUE]

TP_build(w, p) ==
    [w EXCEPT !.dirs = @ \cup {"build"}, !.bdir[p] = TRUE, !.cwd = get_build(p)]

TP_install(w, p, m) ==
    IF prefix = "missing" THEN Emit(w, "print", p, "does not exists", m)
    ELSE IF prefix = "readonly" THEN Emit(w, "print", p, "has not write permissions", m)
    ELSE IF ~w.bdir[p] THEN Raise(w, "OSError")
    ELSE [w EXCEPT !.cwd = get_build(p)]

(***************************************************************************)
(* External commands                                                       *)
(***************************************************************************)
\* os.path.lexists('Makefile'): relative to the working directory.
HasMakefile(w) == w.cwd[1] = "build" /\ w.mk[w.cwd[2]]

\* <src>/configure, run in the working directory; it writes the Makefile there.
_configure(w, p, m, ok) ==
    IF ~w.src[p] THEN Raise(w, "OSError")
    ELSE LET w1 == Fail(Emit(w, "configure", p, "configure", m), "configure", ~ok)
         IN  IF ok /\ w1.cwd[1] = "build" THEN [w1 EXCEPT !.mk[w1.cwd[2]] = TRUE]
             ELSE w1

\* Variant: a non-zero exit status of make is raised as an exception.
make_Checked(w, p, target, m, bad) ==
    LET kind == IF target \in InstallTargets THEN "install" ELSE "make"
        failed == kind \in bad \/ ~HasMakefile(w)
        w1 == Fail(Emit(w, "make", p, target, m), kind, failed)
    IN  IF failed THEN Raise(w1, "CalledProcessError") ELSE w1

\* make <target>; its exit status is discarded.
make(w, p, target, m, bad) ==
    LET kind == IF target \in InstallTargets THEN "install" ELSE "make"
    IN  Fail(Emit(w, "make", p, target, m), kind, kind \in bad \/ ~HasMakefile(w))

\* Variant: configure is run whether or not a Makefile is there.
ConfigureIfNeeded_Always(w, p, m, ok) == _configure(w, p, m, ok)

ConfigureIfNeeded(w, p, m, ok) ==
    IF HasMakefile(w) THEN w ELSE _configure(w, p, m, ok)

(***************************************************************************)
(* Concrete packages.  o is the outcome of the external tools during the   *)
(* call: o.dl[k] of wget for mirror k, o.ndl of wget for newlib, o.cf and  *)
(* o.ncf whether configure (of the package, of newlib) succeeds, o.bad the *)
(* kinds among "make", "install", "prereq" that exit non-zero.             *)
(***************************************************************************)
BuildTarget(p) == IF p = "gdb" THEN "all-gdb" ELSE "all"

InstallTarget(p) == IF p = "gdb" THEN "install-gdb" ELSE "install"

\* build() of BinutilsPackage, GdbPackage and NewlibPackage.
SimpleBuild(w, p, by, cf, bad) ==
    LET w0 == Call(w, p, "build", by)
        w1 == TP_build(w0, p)
        w2 == ConfigureIfNeeded(w1, p, "build", cf)
    IN  IF Ok(w2) THEN make(w2, p, BuildTarget(p), "build", bad) ELSE w2

\* install() of every concrete package.
install(w, p, by, bad) ==
    LET w0 == Call(w, p, "install", by)
        w1 == TP_install(w0, p, "install")
    IN  IF Ok(w1) THEN make(w1, p, InstallTarget(p), "install", bad) ELSE w1

\* Variant: newlib is fetched before the prerequisite script is run.
GccPrerequisites_NewlibFirst(w, by, o) ==
    LET w0 == TP_prerequisites(Call(w, "gcc", "prerequisites", by), "gcc")
    IN  IF ~w0.src["gcc"] THEN Raise(w0, "OSError")
        ELSE LET w1 == [w0 EXCEPT !.cwd = get_src("gcc")]
                 w2 == download(w1, newlibPkg, "gcc.prerequisites", <<o.ndl>>)
                 w3 == extract(w2, newlibPkg, "gcc.prerequisites")
             IN  IF Ok(w3)
                 THEN Fail(Emit(w3, "prereq", "gcc", "contrib/download_prerequisites",
                                "prerequisites"),
                           "prereq", "prereq" \in o.bad)
                 ELSE w3

GccPrerequisites(w, by, o) ==
    LET w0 == TP_prerequisites(Call(w, "gcc", "prerequisites", by), "gcc")
    IN  IF ~w0.src["gcc"] THEN Raise(w0, "OSError")
        ELSE LET w1 == [w0 EXCEPT !.cwd = get_src("gcc")]
                 w2 == Fail(Emit(w1, "prereq", "gcc", "contrib/download_prerequisites",
                                 "prerequisites"),
                            "prereq", "prereq" \in o.bad)
                 w3 == download(w2, newlibPkg, "gcc.prerequisites", <<o.ndl>>)
             IN  extract(w3, newlibPkg, "gcc.prerequisites")

prerequisites(w, p, by, o) ==
    IF p = "gcc" THEN GccPrerequisites(w, by, o)
    ELSE TP_prerequisites(Call(w, p, "prerequisites", by), p)

GccStage1Build(w, o) ==
    LET w1 == make(w, "gcc", "all-gcc", "build", o.bad)
    IN  make(w1, "gcc", "all-target-libgcc", "build", o.bad)

GccStage1Install(w, o) ==
    LET w1 == TP_install(w, "gcc", "build")
        w2 == IF Ok(w1) THEN make(w1, "gcc", "install-gcc", "build", o.bad) ELSE w1
    IN  IF Ok(w2) THEN make(w2, "gcc", "install-target-libgcc", "build", o.bad) ELSE w2

GccNewlib(w, o) ==
    LET w1 == SimpleBuild(w, newlibPkg, "gcc.build", o.ncf, o.bad)
    IN  IF Ok(w1) THEN install(w1, newlibPkg, "gcc.build", o.bad) ELSE w1

\* Variant: stage 2 does not return to gcc's build directory.
GccStage2_NoChdir(w, o) ==
    LET w2 == make(w, "gcc", "all", "build", o.bad)
    IN  make(w2, "gcc", "install", "build", o.bad)

GccStage2(w, o) ==
    LET w1 == [w EXCEPT !.cwd = get_build("gcc")]
        w2 == make(w1, "gcc", "all", "build", o.bad)
    IN  make(w2, "gcc", "install", "build", o.bad)

\* Variant: the full rebuild is issued before newlib is built and installed.
GccBuild_Stage2First(w, by, o) ==
    LET w0 == Call(w, "gcc", "build", by)
        w1 == TP_build(w0, "gcc")
        w2 == [w1 EXCEPT !.cwd = get_build("gcc")]
        w3 == ConfigureIfNeeded(w2, "gcc", "build", o.cf)
        w4 == IF Ok(w3) THEN GccStage1Build(w3, o) ELSE w3
        w5 == IF Ok(w4) THEN GccStage1Install(w4, o) ELSE w4
        w6 == IF Ok(w5) THEN GccStage2(w5, o) ELSE w5
    IN  IF Ok(w6) THEN GccNewlib(w6, o) ELSE w6

\* Variant: newlib is built before the stage-1 compiler is installed.
GccBuild_NewlibBeforeInstall(w, by, o) ==
    LET w0 == Call(w, "gcc", "build", by)
        w1 == TP_build(w0, "gcc")
        w2 == [w1 EXCEPT !.cwd = get_build("gcc")]
        w3 == ConfigureIfNeeded(w2, "gcc", "build", o.cf)
        w4 == IF Ok(w3) THEN GccStage1Build(w3, o) ELSE w3
        w5 == IF Ok(w4) THEN GccNewlib(w4, o) ELSE w4
        w6 == IF Ok(w5) THEN GccStage1Install(w5, o) ELSE w5
    IN  IF Ok(w6) THEN GccStage2(w6, o) ELSE w6

GccBuild(w, by, o) ==
    LET w0 == Call(w, "gcc", "build", by)
        w1 == TP_build(w0, "gcc")
        w2 == [w1 EXCEPT !.cwd = get_build("gcc")]
        w3 == ConfigureIfNeeded(w2, "gcc", "build", o.cf)
        w4 == IF Ok(w3) THEN GccStage1Build(w3, o) ELSE w3
        w5 == IF Ok(w4) THEN GccStage1Install(w4, o) ELSE w4
        w6 == IF Ok(w5) THEN GccNewlib(w5, o) ELSE w5
    IN  IF Ok(w6) THEN GccStage2(w6, o) ELSE w6

build(w, p, by, o) ==
    IF p = "gcc" THEN GccBuild(w, by, o) ELSE SimpleBuild(w, p, by, o.cf, o.bad)

(***************************************************************************)
(* Inputs: the outcomes of the external tools                              *)
(***************************************************************************)
NoOutcome == [dl |-> <<"ok", "ok">>, ndl |-> "ok", cf |-> TRUE, ncf |-> TRUE, bad |-> {}]

DownloadOutcomes == {[NoOutcome EXCEPT !.dl = <<a, b>>] : a \in WgetOutcomes, b \in WgetOutcomes}

PrerequisitesOutcomes ==
    {[NoOutcome EXCEPT !.ndl = a, !.bad = b] : a \in WgetOutcomes, b \in SUBSET {"prereq"}}

BuildOutcomes ==
    {[NoOutcome EXCEPT !.cf = c, !.ncf = n, !.bad = b] :
        c \in BOOLEAN, n \in BOOLEAN, b \in SUBSET {"make", "install"}}

InstallOutcomes == {[NoOutcome EXCEPT !.bad = b] : b \in SUBSET {"install"}}

(***************************************************************************)
(* State after a method                                                    *)
(***************************************************************************)
Set(w) ==
    /\ tar' = w.tar
    /\ src' = w.src
    /\ bdir' = w.bdir
    /\ mk' = w.mk
    /\ dirs' = w.dirs
    /\ cwd' = w.cwd
    /\ log' = w.log
    /\ nonzero' = w.nonzero
    /\ err' = w.err
    /\ ret' = w.ret

(***************************************************************************)
(* Initial states: what earlier runs (or the user) left in the cache       *)
(***************************************************************************)
Cache(t, s, b, m) == [tar |-> t, src |-> s, bdir |-> b, mk |-> m]

Fresh == Cache("none", FALSE, FALSE, FALSE)
Configured == Cache("good", TRUE, TRUE, TRUE)

CacheStates ==
    { Fresh,                                  \* nothing yet
      Cache("bad", FALSE, FALSE, FALSE),      \* a failed download left a file
      Cache("good", FALSE, FALSE, FALSE),     \* downloaded
      Cache("good", TRUE, FALSE, FALSE),      \* extracted
      Cache("none", TRUE, FALSE, FALSE),      \* extracted, archive removed since
      Configured }                            \* configured in the build directory

DirsOf(c) ==
    {d \in {"archives", "src", "build"} :
        \E p \in Pkgs : \/ d = "archives" /\ c[p].tar # "none"
                        \/ d = "src" /\ c[p].src
                        \/ d = "build" /\ c[p].bdir}

InitFs(c) ==
    /\ tar = [p \in Pkgs |-> c[p].tar]
    /\ src = [p \in Pkgs |-> c[p].src]
    /\ bdir = [p \in Pkgs |-> c[p].bdir]
    /\ mk = [p \in Pkgs |-> c[p].mk]
    /\ dirs = DirsOf(c)

InitProcess ==
    /\ prefix \in {"missing", "readonly", "writable"}
    /\ cwd = ScriptDir
    /\ log = << >>
    /\ nonzero = {}
    /\ err = "none"
    /\ ret = FALSE
    /\ net = <<"ok", "ok">>
    /\ run = 1
    /\ warm = FALSE

\* The script is started: the packages of main() in the same cache state, newlib
\* in any (mixed states arise when a run is aborted and the script run again).
Init ==
    /\ InitProcess
    /\ \E c \in CacheStates, n \in CacheStates :
          InitFs([p \in Pkgs |-> IF p = newlibPkg THEN n ELSE c])
    /\ idx = 1
    /\ pc = "download"

(***************************************************************************)
(* main()                                                                  *)
(***************************************************************************)
pkg == packages[idx]

\* An exception is not handled: the run ends.  Otherwise the next stage, the
\* next package, or the end of the loop.
Advance(w) ==
    IF w.err # "none" THEN pc' = "aborted" /\ idx' = idx
    ELSE IF pc # "install" THEN pc' = NextStage(pc) /\ idx' = idx
    ELSE IF idx < Len(packages) THEN pc' = "download" /\ idx' = idx + 1
    ELSE pc' = "done" /\ idx' = idx

MainDownload ==
    /\ pc = "download"
    /\ \E o \in DownloadOutcomes :
          LET w == download(World, pkg, "main", o.dl) IN Set(w) /\ Advance(w)
    /\ UNCHANGED <<prefix, net, run, warm>>

MainExtract ==
    /\ pc = "extract"
    /\ LET w == extract(World, pkg, "main") IN Set(w) /\ Advance(w)
    /\ UNCHANGED <<prefix, net, run, warm>>

MainPrerequisites ==
    /\ pc = "prerequisites"
    /\ \E o \in PrerequisitesOutcomes :
          LET w == prerequisites(World, pkg, "main", o) IN Set(w) /\ Advance(w)
    /\ UNCHANGED <<prefix, net, run, warm>>

MainBuild ==
    /\ pc = "build"
    /\ \E o \in BuildOutcomes :
          LET w == build(World, pkg, "main", o) IN Set(w) /\ Advance(w)
    /\ UNCHANGED <<prefix, net, run, warm>>

MainInstall ==
    /\ pc = "install"
    /\ \E o \in InstallOutcomes :
          LET w == install(World, pkg, "main", o.bad) IN Set(w) /\ Advance(w)
    /\ UNCHANGED <<prefix, net, run, warm>>

AllCached == \A p \in Pkgs : tar[p] = "good" /\ src[p] /\ bdir[p] /\ mk[p]

\* The script is run again, in the same directory, after it ended.
Rerun ==
    /\ pc \in {"done", "aborted"}
    /\ run < MaxRuns
    /\ run' = run + 1
    /\ warm' = (pc = "done" /\ AllCached)
    /\ cwd' = ScriptDir
    /\ log' = << >>
    /\ nonzero' = {}
    /\ err' = "none"
    /\ ret' = FALSE
    /\ idx' = 1
    /\ pc' = "download"
    /\ UNCHANGED <<prefix, tar, src, bdir, mk, dirs, net>>

Next ==
    \/ MainDownload
    \/ MainExtract
    \/ MainPrerequisites
    \/ MainBuild
    \/ MainInstall
    \/ Rerun

Spec == Init /\ [][Next]_vars

\* Exit status of the process: 0 at the end of main(), 1 on an unhandled exception.
ExitCode == IF pc = "done" THEN 0 ELSE IF pc = "aborted" THEN 1 ELSE -1

(***************************************************************************)
(* The methods of one package object called directly, in any order: the    *)
(* contract of each method, whatever main() does with it.                  *)
(***************************************************************************)
AllPkgs == packages \o <<newlibPkg>>

Subject == AllPkgs[idx]

InitCalls ==
    /\ InitProcess
    /\ idx \in 1..Len(AllPkgs)
    /\ pc = "test"
    /\ \E c \in CacheStates, n \in CacheStates :
          /\ Subject # "gcc" => n = Fresh
          /\ InitFs([p \in Pkgs |-> IF p = Subject THEN c
                                    ELSE IF p = newlibPkg THEN n ELSE Fresh])

Calls == Cardinality({i \in 1..Len(log) : log[i].cmd = "call" /\ log[i].in = "test"})

\* The caller handles what the previous call raised.
Caller == [World EXCEPT !.err = "none"]

TestDownload ==
    /\ pc = "test" /\ Calls < MaxCalls
    /\ \E o \in DownloadOutcomes :
          Set(download(Caller, Subject, "test", o.dl)) /\ net' = o.dl
    /\ UNCHANGED <<prefix, idx, pc, run, warm>>

TestExtract ==
    /\ pc = "test" /\ Calls < MaxCalls
    /\ Set(extract(Caller, Subject, "test"))
    /\ UNCHANGED <<prefix, net, idx, pc, run, warm>>

TestPrerequisites ==
    /\ pc = "test" /\ Calls < MaxCalls
    /\ \E o \in PrerequisitesOutcomes : Set(prerequisites(Caller, Subject, "test", o))
    /\ UNCHANGED <<prefix, net, idx, pc, run, warm>>

TestBuild ==
    /\ pc = "test" /\ Calls < MaxCalls
    /\ \E o \in BuildOutcomes : Set(build(Caller, Subject, "test", o))
    /\ UNCHANGED <<prefix, net, idx, pc, run, warm>>

TestInstall ==
    /\ pc = "test" /\ Calls < MaxCalls
    /\ \E o \in InstallOutcomes : Set(install(Caller, Subject, "test", o.bad))
    /\ UNCHANGED <<prefix, net, idx, pc, run, warm>>

NextCalls ==
    \/ TestDownload
    \/ TestExtract
    \/ TestPrerequisites
    \/ TestBuild
    \/ TestInstall

SpecCalls == InitCalls /\ [][NextCalls]_vars

(***************************************************************************)
(* Reading the log                                                         *)
(***************************************************************************)
IsInstallCmd(e) == e.cmd = "make" /\ e.arg \in InstallTargets

IsTestCall(e) == e.cmd = "call" /\ e.in = "test"

\* The entries a step appends to the log.
Added == SubSeq(log', Len(log) + 1, Len(log'))

\* The step is the direct call of method m on the package under test.
TestCallOf(m) ==
    /\ pc = "test"
    /\ Len(log') > Len(log)
    /\ IsTestCall(log'[Len(log) + 1])
    /\ log'[Len(log) + 1].arg = m

\* The method of the latest direct call ("" before the first one).
LastTestCall ==
    LET c == {i \in 1..Len(log) : IsTestCall(log[i])}
    IN  IF c = {} THEN "" ELSE log[CHOOSE i \in c : \A j \in c : j <= i].arg

\* The entries of the latest direct call.
LastSegment ==
    LET c == {i \in 1..Len(log) : IsTestCall(log[i])}
    IN  IF c = {} THEN << >>
        ELSE SubSeq(log, CHOOSE i \in c : \A j \in c : j <= i, Len(log))

Has(seq, cmds) == \E i \in 1..Len(seq) : seq[i].cmd \in cmds

NextWorld ==
    [tar |-> tar', src |-> src', bdir |-> bdir', mk |-> mk', dirs |-> dirs',
     cwd |-> cwd', log |-> log', nonzero |-> nonzero', err |-> "none", ret |-> ret']

(***************************************************************************)
(* C1: for every package, install() called while the install prefix does   *)
(* not exist or is not writable reports the condition, leaves the working  *)
(* directory alone and invokes no install command of make.                 *)
(***************************************************************************)
C1_InstallRefused ==
    [][ (TestCallOf("install") /\ prefix # "writable") =>
          /\ Has(Added, {"print"})
          /\ cwd' = cwd
          /\ \A i \in 1..Len(Added) : ~IsInstallCmd(Added[i]) ]_vars

IsStage2(e) ==
    e.cmd = "make" /\ e.pkg = "gcc" /\ e.in = "build" /\ e.arg \in {"all", "install"}

IsNewlibInstall(e) ==
    e.cmd = "make" /\ e.pkg = newlibPkg /\ e.in = "install" /\ e.arg = "install"

IsGccBuildCall(e) == e.cmd = "call" /\ e.pkg = "gcc" /\ e.arg = "build"

(***************************************************************************)
(* C2: in every execution of gcc's build(), the stage-2 commands (make and *)
(* make install in gcc's build directory) come only after the install step *)
(* of newlib of that same execution; none precedes it.                     *)
(***************************************************************************)
C2_Stage2AfterNewlibInstall ==
    \A i \in 1..Len(log) :
        IsStage2(log[i]) =>
            \E j \in 1..(i - 1) :
                /\ IsNewlibInstall(log[j])
                /\ \E c \in 1..(j - 1) :
                      /\ log[c].cmd = "call" /\ log[c].pkg = newlibPkg
                      /\ log[c].arg = "install" /\ log[c].in = "gcc.build"
                /\ \A b \in (j + 1)..i : ~IsGccBuildCall(log[b])

\* A build() of gcc ran to its end: both stage-2 commands were issued.
C2_Witness ==
    /\ Len(log) >= 2
    /\ IsStage2(log[Len(log)]) /\ log[Len(log)].arg = "install"
    /\ IsStage2(log[Len(log) - 1]) /\ log[Len(log) - 1].arg = "all"

Preparatory == {"wget", "untar", "configure"}

(***************************************************************************)
(* C3: idempotency.  As claimed: for every package, download(), extract()  *)
(* or build() called a second time right after a first call, nothing else  *)
(* changing in between, invokes no download tool, extracts no archive and  *)
(* invokes no configure script.                                            *)
(***************************************************************************)
C3_Idempotent ==
    [][ \A m \in {"download", "extract", "build"} :
          (TestCallOf(m) /\ LastTestCall = m) => ~Has(Added, Preparatory) ]_vars

\* The first call did its work: download() returned True, extract() returned
\* without raising, build() left a Makefile in the build directory (gcc: in
\* newlib's build directory as well).
Completed(m) ==
    CASE m = "download" -> ret
      [] m = "extract"  -> err = "none"
      [] m = "build"    -> mk[Subject] /\ (Subject = "gcc" => mk[newlibPkg])
      [] OTHER          -> FALSE

(***************************************************************************)
(* C3, amended: the second call repeats no download, extraction or         *)
(* configure when the first call did its work (Completed).                 *)
(***************************************************************************)
C3_IdempotentAfterSuccess ==
    [][ \A m \in {"download", "extract", "build"} :
          (TestCallOf(m) /\ LastTestCall = m /\ Completed(m)) =>
              ~Has(Added, Preparatory) ]_vars

\* build() twice in a row: the first call configured, the second did not.
C3_Witness ==
    \E a \in 1..Len(log), b \in 1..Len(log) :
        /\ a < b
        /\ IsTestCall(log[a]) /\ log[a].arg = "build"
        /\ IsTestCall(log[b]) /\ log[b].arg = "build"
        /\ \A i \in (a + 1)..(b - 1) : ~IsTestCall(log[i])
        /\ \E i \in (a + 1)..(b - 1) : log[i].cmd = "configure"
        /\ \E i \in (b + 1)..Len(log) : log[i].cmd = "make"
        /\ \A i \in (b + 1)..Len(log) : log[i].cmd \notin Preparatory

(***************************************************************************)
(* C4: mirror fallback.  No source directory and no archive, a package     *)
(* with two mirrors, wget fails on the first mirror and would succeed on   *)
(* the second (whether or not the failure left a file): after download()   *)
(* the archive of the second mirror is at the archive path and the         *)
(* extract() that follows raises no missing-file error.                    *)
(***************************************************************************)
C4_MirrorFallback ==
    [][ ( /\ TestCallOf("download")
          /\ repos_url(Subject) = 2
          /\ ~src[Subject] /\ tar[Subject] = "none"
          /\ net'[1] # "ok" /\ net'[2] = "ok" ) =>
        ( /\ tar'[Subject] = "good"
          /\ \E i \in 1..Len(Added) :
                Added[i].cmd = "wget" /\ Added[i].k = 2 /\ Added[i].rc = 0
          /\ extract(NextWorld, Subject, "test").err # "IOError" ) ]_vars

IsWget(e, p) == e.cmd = "wget" /\ e.pkg = p

(***************************************************************************)
(* C10: download() tries the mirrors in list order and stops at the first  *)
(* success: wget runs for mirror k only after it ran and failed for every  *)
(* mirror before k, at most once per mirror, and never after a success;    *)
(* when the first mirror succeeds wget runs exactly once for the package.  *)
(***************************************************************************)
C10_MirrorsInOrder ==
    \A i \in 1..Len(log) :
        log[i].cmd = "wget" =>
          LET p == log[i].pkg
          IN
            /\ p \in Pkgs
            /\ log[i].k \in 1..repos_url(p)
            /\ \A n \in 1..(log[i].k - 1) :
                  \E j \in 1..(i - 1) :
                      IsWget(log[j], p) /\ log[j].k = n /\ log[j].rc # 0
            /\ \A j \in 1..Len(log) :
                  (IsWget(log[j], p) /\ log[j].k = log[i].k) => j = i
            /\ log[i].rc = 0 => \A j \in (i + 1)..Len(log) : ~IsWget(log[j], p)
            /\ (log[i].k = 1 /\ log[i].rc = 0) =>
                  Cardinality({j \in 1..Len(log) : IsWget(log[j], p)}) = 1

\* A run fell back to the second mirror of gdb, after the first one failed.
C10_Witness ==
    /\ pc = "done"
    /\ \E i \in 1..Len(log) : IsWget(log[i], "gdb") /\ log[i].k = 2 /\ log[i].rc = 0
    /\ \E i \in 1..Len(log) : IsWget(log[i], "binutils") /\ log[i].k = 1 /\ log[i].rc = 0

(***************************************************************************)
(* Reading the log of a run of main()                                      *)
(***************************************************************************)
IsMainCall(e) == e.cmd = "call" /\ e.in = "main"

MainCalls == SelectSeq(log, IsMainCall)

CallIdx == {i \in 1..Len(log) : log[i].cmd = "call"}

\* The latest method entered.
LastCall == log[CHOOSE i \in CallIdx : \A j \in CallIdx : j <= i]

(***************************************************************************)
(* C5: as claimed, a non-zero exit of any sub-process (wget, configure,    *)
(* make, an install command, the prerequisite script) never stops the run: *)
(* the process does not end with an unhandled exception.                   *)
(***************************************************************************)
C5_NonZeroNeverStops == nonzero # {} => ExitCode # 1

(***************************************************************************)
(* C5, amended: the run is stopped only by extract() raising on a missing  *)
(* or unreadable archive (the outcome of a failed download); exit statuses *)
(* of configure, make, install commands and the prerequisite script stop   *)
(* nothing: until then every stage is taken, and the end of main() is      *)
(* reached with exit code 0 and all stages of all packages called.         *)
(***************************************************************************)
C5_OnlyExtractStops ==
    /\ pc = "aborted" =>
          /\ ExitCode = 1
          /\ CallIdx # {} /\ LastCall.arg = "extract"
          /\ \/ err = "IOError" /\ tar[LastCall.pkg] = "none"
             \/ err = "ReadError" /\ tar[LastCall.pkg] = "bad"
    /\ pc \notin {"aborted", "done"} =>
          /\ err = "none"
          /\ \E n \in 1..Len(Stages) : pc = Stages[n]
          /\ idx \in 1..Len(packages)
    /\ pc = "done" =>
          /\ ExitCode = 0 /\ err = "none"
          /\ Len(MainCalls) = Len(packages) * Len(Stages)

\* The end of main() is reached although every kind of sub-process failed.
C5_Witness ==
    /\ pc = "done"
    /\ nonzero = {"wget", "configure", "make", "install", "prereq"}

AllMirrorsFailed(p) ==
    \A n \in 1..repos_url(p) :
        \E i \in 1..Len(log) : IsWget(log[i], p) /\ log[i].k = n /\ log[i].rc # 0

(***************************************************************************)
(* C6: when the download of a package failed for every mirror (wget was    *)
(* run, so neither source directory nor archive existed), the extract()    *)
(* that follows fails with the missing-file error, which ends the run: no  *)
(* later stage of that package or of a later package is entered.           *)
(***************************************************************************)
C6_AllMirrorsFailedMissingFile ==
    \A p \in Pkgs : \A i \in CallIdx :
        (AllMirrorsFailed(p) /\ log[i].pkg = p /\ log[i].arg = "extract") =>
            /\ pc = "aborted"
            /\ err = "IOError"
            /\ \A j \in CallIdx : j <= i

Schedule(i) ==
    <<packages[((i - 1) \div Len(Stages)) + 1], Stages[((i - 1) % Len(Stages)) + 1]>>

\* The latest stage main() entered before log entry i.
MainStageAt(i) ==
    LET c == {j \in 1..i : IsMainCall(log[j])}
    IN  IF c = {} THEN <<"", "">>
        ELSE LET j == CHOOSE x \in c : \A y \in c : y <= x
             IN  <<log[j].pkg, log[j].arg>>

(***************************************************************************)
(* C7: main() takes binutils, gcc, gdb in that order and, for each, calls  *)
(* download, extract, prerequisites, build, install in that order, each    *)
(* once, all five before the next package; newlib's stages are never       *)
(* called by main(), only from gcc's prerequisites() and build().          *)
(***************************************************************************)
C7_DriverOrder ==
    /\ LET m == MainCalls
       IN  /\ Len(m) <= Len(packages) * Len(Stages)
           /\ \A i \in 1..Len(m) : <<m[i].pkg, m[i].arg>> = Schedule(i)
           /\ pc = "done" => Len(m) = Len(packages) * Len(Stages)
    /\ \A i \in CallIdx :
          log[i].pkg = newlibPkg =>
              \/ /\ log[i].in = "gcc.prerequisites"
                 /\ log[i].arg \in {"download", "extract"}
                 /\ MainStageAt(i) = <<"gcc", "prerequisites">>
              \/ /\ log[i].in = "gcc.build"
                 /\ log[i].arg \in {"build", "install"}
                 /\ MainStageAt(i) = <<"gcc", "build">>

\* A complete run: fifteen calls by main(), four of newlib's stages from gcc.
C7_Witness ==
    /\ pc = "done"
    /\ Len(MainCalls) = Len(packages) * Len(Stages)
    /\ Cardinality({i \in CallIdx : log[i].pkg = newlibPkg}) = 4

(***************************************************************************)
(* C8: in a run in which the install prefix does not exist, no install     *)
(* target of make is invoked at any point, for any package.                *)
(***************************************************************************)
C8_NoInstallWithoutPrefix ==
    prefix = "missing" => \A i \in 1..Len(log) : ~IsInstallCmd(log[i])

(***************************************************************************)
(* C9: in a run started after a complete run that left the archives,       *)
(* source directories and configured build directories of all four         *)
(* packages, no download tool, no extraction, no configure and no other    *)
(* preparatory work is invoked: make is the only external command.         *)
(***************************************************************************)
C9_RerunOnlyMake ==
    warm => \A i \in 1..Len(log) : log[i].cmd \in {"call", "print", "make"}

\* The part of C9 the code keeps: no wget, no extraction, no configure.
C9_RerunNoFetchExtractConfigure ==
    warm => \A i \in 1..Len(log) : log[i].cmd \notin Preparatory

(***************************************************************************)
(* Reading one execution of gcc's build()                                  *)
(***************************************************************************)
Stage1 == <<"all-gcc", "all-target-libgcc", "install-gcc", "install-target-libgcc">>

IsGccCmd(e) == e.pkg = "gcc" /\ e.cmd \in {"configure", "make"}

IsNewlibBuildByGcc(e) ==
    e.cmd = "call" /\ e.pkg = newlibPkg /\ e.arg = "build" /\ e.in = "gcc.build"

\* The targets (or "configure") of the gcc commands among entries a..b of the log.
GccCmds(a, b) ==
    LET t == SelectSeq(SubSeq(log, a, b), IsGccCmd)
    IN  [i \in 1..Len(t) |-> t[i].arg]

\* The entry of the build() of gcc that log entry i belongs to (0 if none).
GccBuildOf(i) ==
    LET c == {j \in 1..i : IsGccBuildCall(log[j])}
    IN  IF c = {} THEN 0 ELSE CHOOSE j \in c : \A x \in c : x <= j

(***************************************************************************)
(* C11: in gcc's build(), newlib is configured and built only after the    *)
(* stage-1 sequence was issued, in this order: gcc's configure (if there   *)
(* was no Makefile), make all-gcc, all-target-libgcc, install-gcc,         *)
(* install-target-libgcc; no command of newlib's build comes before them.  *)
(***************************************************************************)
C11_NewlibAfterStage1 ==
    \A n \in 1..Len(log) :
        IsNewlibBuildByGcc(log[n]) =>
            LET c == GccBuildOf(n)
            IN  /\ c > 0
                /\ GccCmds(c, n) \in {Stage1, <<"configure">> \o Stage1}
                /\ GccCmds(c, n) = Stage1 => mk["gcc"]
                /\ \A j \in c..(n - 1) : log[j].pkg # newlibPkg
                /\ \A j \in (c + 1)..(n - 1) : IsGccCmd(log[j]) => log[j].in = "build"

\* build() of gcc configured gcc, went through stage 1, then built newlib.
C11_Witness ==
    \E n \in 1..Len(log) :
        /\ IsNewlibBuildByGcc(log[n])
        /\ GccCmds(GccBuildOf(n), n) = <<"configure">> \o Stage1
        /\ \E j \in (n + 1)..Len(log) :
              log[j].pkg = newlibPkg /\ log[j].cmd = "make" /\ log[j].arg = "all"

(***************************************************************************)
(* C12: gcc's prerequisites() first runs the prerequisite script of the    *)
(* gcc sources and only then downloads and extracts newlib, all of it      *)
(* before gcc's configure in build(): whenever gcc's configure runs in a   *)
(* run of main(), newlib's download and extract have been performed.       *)
(***************************************************************************)
C12_NewlibFetchedBeforeGccConfigure ==
    /\ \A i \in 1..Len(log) :
          (log[i].cmd = "configure" /\ log[i].pkg = "gcc") =>
              /\ src[newlibPkg]
              /\ \E s \in 1..(i - 1) :
                    /\ log[s].cmd = "prereq" /\ log[s].pkg = "gcc"
                    /\ \E d \in (s + 1)..(i - 1) :
                          /\ log[d].cmd = "call" /\ log[d].pkg = newlibPkg
                          /\ log[d].arg = "download"
                          /\ log[d].in = "gcc.prerequisites"
                          /\ \E x \in (d + 1)..(i - 1) :
                                /\ log[x].cmd = "call" /\ log[x].pkg = newlibPkg
                                /\ log[x].arg = "extract"
                                /\ log[x].in = "gcc.prerequisites"
    /\ \A d \in 1..Len(log) :
          (log[d].pkg = newlibPkg /\ log[d].in = "gcc.prerequisites") =>
              \E s \in 1..(d - 1) : log[s].cmd = "prereq" /\ log[s].pkg = "gcc"

\* gcc was configured in a run in which newlib was downloaded and extracted.
C12_Witness ==
    /\ \E i \in 1..Len(log) : log[i].cmd = "configure" /\ log[i].pkg = "gcc"
    /\ \E i \in 1..Len(log) : IsWget(log[i], newlibPkg) /\ log[i].rc = 0
    /\ \E i \in 1..Len(log) : log[i].cmd = "untar" /\ log[i].pkg = newlibPkg

(***************************************************************************)
(* C13: for every package and every filesystem state, when download()      *)
(* returned True the extract() called right after it does not raise the    *)
(* missing-file error; also when the source directory is there from an     *)
(* earlier run and the archive is no longer in the archive directory.      *)
(***************************************************************************)
C13_ExtractAfterDownload ==
    [][ (TestCallOf("extract") /\ LastTestCall = "download" /\ ret) =>
            err' # "IOError" ]_vars

(***************************************************************************)
(* C14: in every run of main(), whatever the install prefix and the exit   *)
(* statuses, every configure and every make issued for a package runs with *)
(* the working directory equal to the build directory of that package,     *)
(* including gcc's stage-2 commands after newlib was built and the install *)
(* commands issued after install() returned early.                         *)
(***************************************************************************)
C14_CommandsInOwnBuildDir ==
    \A i \in 1..Len(log) :
        log[i].cmd \in {"configure", "make"} => log[i].cwd = get_build(log[i].pkg)

\* A complete run without install prefix: install() returned early each time,
\* and the stage-2 and install commands were issued all the same.
C14_Witness ==
    /\ pc = "done"
    /\ prefix = "missing"
    /\ nonzero # {}
    /\ \E i \in 1..Len(log) : IsStage2(log[i]) /\ log[i].arg = "install"
    /\ \E i \in 1..Len(log) : IsNewlibInstall(log[i])
    /\ \E i \in 1..Len(log) :
          log[i].cmd = "make" /\ log[i].pkg = "gdb" /\ log[i].in = "install"

=============================================================================
